---- MODULE Spec2Model ----
(***************************************************************************)
(* The users CRUD service of things-kit-example-db: the HTTP Handler       *)
(* (internal/user/handler.go), the users table of schema.sql, and the      *)
(* Repository the Handler calls.  One action per route; every action is    *)
(* the whole handler, the Repository statement it issues included.         *)
(***************************************************************************)
EXTENDS Integers, Sequences, FiniteSets, TLC

(* ------------------------------ bounds -------------------------------- *)

\* number of values the SERIAL sequence may hand out in a run
MaxSeq == 2
\* number of clock ticks in a run
MaxTime == 1

(* ----------------------------- constants ------------------------------ *)

StatusOK == 200
StatusCreated == 201
StatusNoContent == 204
StatusBadRequest == 400
StatusNotFound == 404
StatusInternalServerError == 500

\* VARCHAR(255)
VarcharMax == 255

(* ------------------------------ inputs -------------------------------- *)

LongText == "xxxxxxxxxxxxxxxxxxxxxxxxxxxxxxxxxxxxxxxxxxxxxxxxxxxxxxxxxxxxxxxxxxxxxxxxxxxxxxxxxxxxxxxxxxxxxxxxxxxxxxxxxxxxxxxxxxxxxxxxxxxxxxxxxxxxxxxxxxxxxxxxxxxxxxxxxxxxxxxxxxxxxxxxxxxxxxxxxxxxxxxxxxxxxxxxxxxxxxxxxxxxxxxxxxxxxxxxxxxxxxxxxxxxxxxxxxxxxxxxxxxxxxxxxxxxxxxxxxxx"

Names == {"John Doe", "John Updated", LongText}
Emails == {"john@example.com", "jane@example.com"}

\* request bodies: one that does not bind, and every {"name":..,"email":..}
BadJSON == [ok |-> FALSE, name |-> "", email |-> ""]
Bodies == {BadJSON} \cup {[ok |-> TRUE, name |-> n, email |-> e] : n \in Names, e \in Emails}
NoBody == [ok |-> FALSE, name |-> "", email |-> ""]

\* the :id path parameter, as the characters of the URL segment
DigitChars == <<"0", "1", "2", "3", "4", "5", "6", "7", "8", "9">>
\* 2^63, the least integer that does not fit an int64
HugeId == <<"9", "2", "2", "3", "3", "7", "2", "0", "3", "6", "8", "5", "4", "7", "7", "5", "8", "0", "8">>
\* segments that are no int64, and segments that are one
BadPaths == {<<"a", "b", "c">>, HugeId}
PathIds == {<<DigitChars[i + 1]>> : i \in 1..MaxSeq} \cup BadPaths
NoPath == <<>>

\* what the storage round trip does besides executing the statement
NoFault == "none"
ConnRefused == "dial tcp 127.0.0.1:5432: connect: connection refused"
DeadlineExceeded == "context deadline exceeded"
Faults == {NoFault, ConnRefused, DeadlineExceeded}
\* c.Request.Context() done: the client went away, or the deadline elapsed
Canceled == "context canceled"
ContextErrors == {Canceled, DeadlineExceeded}

\* the requests of a run: a handler that returns before it reads an input
\* is given one value of that input, and so is a storage round trip that
\* fails before the statement runs; every route meets a refused connection,
\* and GET /users, whose statement cannot fail otherwise, a deadline too
RouteFaults == {NoFault, ConnRefused}
AnyBody == [ok |-> TRUE, name |-> "John Doe", email |-> "john@example.com"]
CreateInputs ==
    {x \in Bodies \X RouteFaults : x[2] # NoFault => x[1] = AnyBody}
PathInputs ==
    {x \in PathIds \X RouteFaults : x[1] \in BadPaths => x[2] = NoFault}
UpdateInputs ==
    {x \in PathIds \X Bodies \X RouteFaults :
        /\ x[3] # NoFault => x[2] = AnyBody
        /\ x[1] \in BadPaths => (x[2] \in {BadJSON, AnyBody} /\ x[3] = NoFault)}

(* --------------------------- error values ----------------------------- *)

ErrNone == "nil"
ErrNoRows == "sql: no rows in result set"
ErrDuplicateEmail == "pq: duplicate key value violates unique constraint \"users_email_key\""
ErrDuplicateId == "pq: duplicate key value violates unique constraint \"users_pkey\""
ErrTooLong == "pq: value too long for type character varying(255)"
ErrSyntax == "strconv.ParseInt: parsing: invalid syntax"
ErrRange == "strconv.ParseInt: parsing: value out of range"
ErrBind == "invalid character in request body"

\* the failure taxonomy: no matching row, or any other storage failure
IsNotFoundError(err) == err = ErrNoRows
IsPersistenceError(err) == err \notin {ErrNone, ErrNoRows}

\* users: the rows of the table; seq: the last value of the SERIAL sequence;
\* now: CURRENT_TIMESTAMP; last: the request served last;
\* created: id and created_at of each 201 of POST /users whose id no 204 of
\* DELETE named since; deleted: the ids the 204s of DELETE named;
\* flight: the request each client has in flight and how far its handler
\* got; hist: the table the clients found and the Repository calls made
\* since, in the order the store executed them
VARIABLES users, seq, now, last, created, deleted, flight, hist

vars == <<users, seq, now, last, created, deleted, flight, hist>>

(* ------------------------- schema.sql: users -------------------------- *)

NoUser == [id |-> 0, name |-> "", email |-> "", created_at |-> 0, updated_at |-> 0]

Ids(table) == {r.id : r \in table}

\* an id read from the sequence without advancing it, once it was started
SerialCurrent(s) == IF s = 0 THEN 1 ELSE s

\* id SERIAL: the next value of the sequence
SerialNext(s) == s + 1

\* updated_at without its DEFAULT CURRENT_TIMESTAMP: the epoch
NewRowEpochUpdatedAt(id, name, email, t) ==
    [id |-> id, name |-> name, email |-> email, created_at |-> t, updated_at |-> 0]

\* DEFAULT CURRENT_TIMESTAMP for created_at and updated_at of a new row
NewRow(id, name, email, t) ==
    [id |-> id, name |-> name, email |-> email, created_at |-> t, updated_at |-> t]

\* VARCHAR(255)
VarcharOk(s) == Len(s) <= VarcharMax

\* PRIMARY KEY (id)
PrimaryKeyOk(table, row) == \A r \in table : r.id # row.id

\* the email column without UNIQUE
EmailNotUnique(table, row) == TRUE

\* email ... UNIQUE
EmailUniqueOk(table, row) == \A r \in table : r.email # row.email

\* the constraints of the table, checked against the other rows before a
\* row is written; ErrNone when the row may be written
Violation(others, row) ==
    IF ~VarcharOk(row.name) \/ ~VarcharOk(row.email) THEN ErrTooLong
    ELSE IF ~PrimaryKeyOk(others, row) THEN ErrDuplicateId
    ELSE IF ~EmailUniqueOk(others, row) THEN ErrDuplicateEmail
    ELSE ErrNone

(* ------------------- strconv.ParseInt(idStr, 10, 64) ------------------ *)

\* math.MaxInt64 = 9223372036854775807, digit by digit
MaxInt64Digits == <<9, 2, 2, 3, 3, 7, 2, 0, 3, 6, 8, 5, 4, 7, 7, 5, 8, 0, 7>>

IsDigit(c) == \E i \in 1..10 : DigitChars[i] = c
DigitVal(c) == (CHOOSE i \in 1..10 : DigitChars[i] = c) - 1

RECURSIVE StripZeros(_)
StripZeros(d) == IF Len(d) > 1 /\ d[1] = "0" THEN StripZeros(Tail(d)) ELSE d

\* d > m for two digit strings of the same length
RECURSIVE DigitsGreater(_, _)
DigitsGreater(d, m) ==
    IF d = <<>> THEN FALSE
    ELSE IF DigitVal(d[1]) # m[1] THEN DigitVal(d[1]) > m[1]
    ELSE DigitsGreater(Tail(d), Tail(m))

RECURSIVE DigitsValue(_)
DigitsValue(d) ==
    IF d = <<>> THEN 0
    ELSE 10 * DigitsValue(SubSeq(d, 1, Len(d) - 1)) + DigitVal(d[Len(d)])

\* an optional sign, then one or more decimal digits, within the int64 range
\* (the one value below -MaxInt64, -2^63, is outside the inputs of the model)
ParseInt(s) ==
    LET signed == s # <<>> /\ s[1] \in {"+", "-"}
        digits == IF signed THEN Tail(s) ELSE s
        sig == StripZeros(digits)
    IN  IF digits = <<>> \/ \E i \in 1..Len(digits) : ~IsDigit(digits[i])
        THEN [err |-> ErrSyntax, value |-> 0]
        ELSE IF Len(sig) > Len(MaxInt64Digits)
                \/ (Len(sig) = Len(MaxInt64Digits) /\ DigitsGreater(sig, MaxInt64Digits))
        THEN [err |-> ErrRange, value |-> 0]
        ELSE [err |-> ErrNone,
              value |-> IF signed /\ s[1] = "-" THEN 0 - DigitsValue(sig) ELSE DigitsValue(sig)]

\* ParseInt of every :id of the model
Param == [p \in PathIds \cup {NoPath} |-> ParseInt(p)]

(* ----------------------------- Repository ----------------------------- *)

\* internal/user/repository.go, one SQL statement per method, as section 4.1
\* of the specification describes it; results carry the error, the user
\* returned, and the table and the sequence after the statement

RowOf(table, id) == CHOOSE r \in table : r.id = id

\* the rows in insertion order, which is the order of their ids
RECURSIVE SortById(_)
SortById(table) ==
    IF table = {} THEN <<>>
    ELSE LET first == CHOOSE r \in table : \A o \in table : r.id <= o.id
         IN  <<first>> \o SortById(table \ {first})

\* INSERT INTO users (name, email) ... RETURNING the row
RepoCreate(table, s, t, req, fault) ==
    IF fault # NoFault
    THEN [err |-> fault, user |-> NoUser, table |-> table, seq |-> s]
    ELSE LET row == NewRow(SerialNext(s), req.name, req.email, t)
             v == Violation(table, row)
         IN  IF v # ErrNone
             THEN [err |-> v, user |-> NoUser, table |-> table, seq |-> SerialNext(s)]
             ELSE [err |-> ErrNone, user |-> row, table |-> table \cup {row},
                   seq |-> SerialNext(s)]

\* SELECT ... WHERE id = $1
RepoGetByID(table, id, fault) ==
    IF fault # NoFault THEN [err |-> fault, user |-> NoUser]
    ELSE IF id \notin Ids(table) THEN [err |-> ErrNoRows, user |-> NoUser]
    ELSE [err |-> ErrNone, user |-> RowOf(table, id)]

\* SELECT ... : every row, never a nil slice
RepoList(table, fault) ==
    IF fault # NoFault THEN [err |-> fault, isNil |-> TRUE, users |-> <<>>]
    ELSE [err |-> ErrNone, isNil |-> FALSE, users |-> SortById(table)]

\* UPDATE users SET name, email, updated_at = now WHERE id = $1 RETURNING the row
RepoUpdate(table, t, id, req, fault) ==
    IF fault # NoFault THEN [err |-> fault, user |-> NoUser, table |-> table]
    ELSE IF id \notin Ids(table) THEN [err |-> ErrNoRows, user |-> NoUser, table |-> table]
    ELSE LET old == RowOf(table, id)
             row == [old EXCEPT !.name = req.name, !.email = req.email, !.updated_at = t]
             v == Violation(table \ {old}, row)
         IN  IF v # ErrNone
             THEN [err |-> v, user |-> NoUser, table |-> table]
             ELSE [err |-> ErrNone, user |-> row, table |-> (table \ {old}) \cup {row}]

\* DELETE FROM users WHERE id = $1; zero rows affected is a failure
RepoDelete(table, id, fault) ==
    IF fault # NoFault THEN [err |-> fault, table |-> table]
    ELSE IF id \notin Ids(table) THEN [err |-> ErrNoRows, table |-> table]
    ELSE [err |-> ErrNone, table |-> table \ {RowOf(table, id)}]

(* ------------------------------ Handler ------------------------------- *)

\* the JSON bodies the Handler writes
ErrorBody(msg) == [kind |-> "error", msg |-> msg, user |-> NoUser, list |-> <<>>]
UserBody(u) == [kind |-> "user", msg |-> "", user |-> u, list |-> <<>>]
\* an empty result written as the JSON of a nil slice
ListBodyNullWhenEmpty(r) ==
    IF r.isNil \/ r.users = <<>>
    THEN [kind |-> "null", msg |-> "", user |-> NoUser, list |-> <<>>]
    ELSE [kind |-> "list", msg |-> "", user |-> NoUser, list |-> r.users]

ListBody(r) ==
    IF r.isNil THEN [kind |-> "null", msg |-> "", user |-> NoUser, list |-> <<>>]
    ELSE [kind |-> "list", msg |-> "", user |-> NoUser, list |-> r.users]
HealthBody == [kind |-> "status", msg |-> "ok", user |-> NoUser, list |-> <<>>]
EmptyBody == [kind |-> "empty", msg |-> "", user |-> NoUser, list |-> <<>>]

\* the entries the Handler writes to the log
LogError(msg, err) == [level |-> "error", msg |-> msg, err |-> err, hasId |-> FALSE, id |-> 0]
LogErrorId(msg, err, id) == [level |-> "error", msg |-> msg, err |-> err, hasId |-> TRUE, id |-> id]
LogInfoId(msg, id) == [level |-> "info", msg |-> msg, err |-> ErrNone, hasId |-> TRUE, id |-> id]

\* c.ShouldBindJSON(&req)
ShouldBindJSON(body) ==
    IF body.ok THEN [err |-> ErrNone, req |-> [name |-> body.name, email |-> body.email]]
    ELSE [err |-> ErrBind, req |-> [name |-> "", email |-> ""]]

\* what one handler run leaves behind: the response, the log entries, the
\* number of Repository calls and the error of the call, the table and the
\* sequence after it
Outcome(status, body, logs, calls, err, table, s) ==
    [status |-> status, body |-> body, logs |-> logs, calls |-> calls, err |-> err,
     table |-> table, seq |-> s]

\* GET /health
HandlerHealth(table, s) ==
    Outcome(StatusOK, HealthBody, <<>>, 0, ErrNone, table, s)

\* POST /users answering a failed create with the error of the Repository
HandlerCreateLeaksError(table, s, t, body, fault) ==
    LET b == ShouldBindJSON(body)
        r == RepoCreate(table, s, t, b.req, fault)
    IN  IF b.err # ErrNone
        THEN Outcome(StatusBadRequest, ErrorBody(b.err),
                     <<LogError("Invalid request", b.err)>>, 0, ErrNone, table, s)
        ELSE IF r.err # ErrNone
        THEN Outcome(StatusInternalServerError, ErrorBody(r.err),
                     <<LogError("Failed to create user", r.err)>>, 1, r.err, r.table, r.seq)
        ELSE Outcome(StatusCreated, UserBody(r.user),
                     <<LogInfoId("User created", r.user.id)>>, 1, ErrNone, r.table, r.seq)

\* POST /users calling the Repository under context.Background(), which is
\* never done, instead of c.Request.Context()
HandlerCreateBackgroundContext(table, s, t, body, fault) ==
    LET b == ShouldBindJSON(body)
        r == RepoCreate(table, s, t, b.req, IF fault \in ContextErrors THEN NoFault ELSE fault)
    IN  IF b.err # ErrNone
        THEN Outcome(StatusBadRequest, ErrorBody(b.err),
                     <<LogError("Invalid request", b.err)>>, 0, ErrNone, table, s)
        ELSE IF r.err # ErrNone
        THEN Outcome(StatusInternalServerError, ErrorBody("Failed to create user"),
                     <<LogError("Failed to create user", r.err)>>, 1, r.err, r.table, r.seq)
        ELSE Outcome(StatusCreated, UserBody(r.user),
                     <<LogInfoId("User created", r.user.id)>>, 1, ErrNone, r.table, r.seq)

\* POST /users
HandlerCreate(table, s, t, body, fault) ==
    LET b == ShouldBindJSON(body)
        r == RepoCreate(table, s, t, b.req, fault)
    IN  IF b.err # ErrNone
        THEN Outcome(StatusBadRequest, ErrorBody(b.err),
                     <<LogError("Invalid request", b.err)>>, 0, ErrNone, table, s)
        ELSE IF r.err # ErrNone
        THEN Outcome(StatusInternalServerError, ErrorBody("Failed to create user"),
                     <<LogError("Failed to create user", r.err)>>, 1, r.err, r.table, r.seq)
        ELSE Outcome(StatusCreated, UserBody(r.user),
                     <<LogInfoId("User created", r.user.id)>>, 1, ErrNone, r.table, r.seq)

\* GET /users
HandlerList(table, s, fault) ==
    LET r == RepoList(table, fault)
    IN  IF r.err # ErrNone
        THEN Outcome(StatusInternalServerError, ErrorBody("Failed to list users"),
                     <<LogError("Failed to list users", r.err)>>, 1, r.err, table, s)
        ELSE Outcome(StatusOK, ListBody(r), <<>>, 1, ErrNone, table, s)

\* GET /users/:id writing a User it never filled in
HandlerGetByIDZeroUser(table, s, path, fault) ==
    LET p == Param[path]
        r == RepoGetByID(table, p.value, fault)
    IN  IF p.err # ErrNone
        THEN Outcome(StatusBadRequest, ErrorBody("Invalid user ID"), <<>>, 0, ErrNone, table, s)
        ELSE IF r.err # ErrNone
        THEN Outcome(StatusNotFound, ErrorBody("User not found"),
                     <<LogErrorId("Failed to get user", r.err, p.value)>>, 1, r.err, table, s)
        ELSE Outcome(StatusOK, UserBody(NoUser), <<>>, 1, ErrNone, table, s)

\* GET /users/:id
HandlerGetByID(table, s, path, fault) ==
    LET p == Param[path]
        r == RepoGetByID(table, p.value, fault)
    IN  IF p.err # ErrNone
        THEN Outcome(StatusBadRequest, ErrorBody("Invalid user ID"), <<>>, 0, ErrNone, table, s)
        ELSE IF r.err # ErrNone
        THEN Outcome(StatusNotFound, ErrorBody("User not found"),
                     <<LogErrorId("Failed to get user", r.err, p.value)>>, 1, r.err, table, s)
        ELSE Outcome(StatusOK, UserBody(r.user), <<>>, 1, ErrNone, table, s)

\* PUT /users/:id answering every Repository error with 500
HandlerUpdateAlways500(table, s, t, path, body, fault) ==
    LET p == Param[path]
        b == ShouldBindJSON(body)
        r == RepoUpdate(table, t, p.value, b.req, fault)
    IN  IF p.err # ErrNone
        THEN Outcome(StatusBadRequest, ErrorBody("Invalid user ID"), <<>>, 0, ErrNone, table, s)
        ELSE IF b.err # ErrNone
        THEN Outcome(StatusBadRequest, ErrorBody(b.err),
                     <<LogError("Invalid request", b.err)>>, 0, ErrNone, table, s)
        ELSE IF r.err # ErrNone
        THEN Outcome(StatusInternalServerError, ErrorBody("Failed to update user"),
                     <<LogErrorId("Failed to update user", r.err, p.value)>>, 1, r.err,
                     r.table, s)
        ELSE Outcome(StatusOK, UserBody(r.user),
                     <<LogInfoId("User updated", r.user.id)>>, 1, ErrNone, r.table, s)

\* PUT /users/:id answering with a User built from the request, not with
\* the row the Repository returned
HandlerUpdateEchoesRequest(table, s, t, path, body, fault) ==
    LET p == Param[path]
        b == ShouldBindJSON(body)
        r == RepoUpdate(table, t, p.value, b.req, fault)
    IN  IF p.err # ErrNone
        THEN Outcome(StatusBadRequest, ErrorBody("Invalid user ID"), <<>>, 0, ErrNone, table, s)
        ELSE IF b.err # ErrNone
        THEN Outcome(StatusBadRequest, ErrorBody(b.err),
                     <<LogError("Invalid request", b.err)>>, 0, ErrNone, table, s)
        ELSE IF r.err # ErrNone
        THEN Outcome(StatusNotFound, ErrorBody("User not found"),
                     <<LogErrorId("Failed to update user", r.err, p.value)>>, 1, r.err,
                     r.table, s)
        ELSE Outcome(StatusOK,
                     UserBody([NoUser EXCEPT !.id = p.value, !.name = b.req.name,
                                             !.email = b.req.email]),
                     <<LogInfoId("User updated", p.value)>>, 1, ErrNone, r.table, s)

\* PUT /users/:id binding the body before it parses the id
HandlerUpdateBodyFirst(table, s, t, path, body, fault) ==
    LET p == Param[path]
        b == ShouldBindJSON(body)
        r == RepoUpdate(table, t, p.value, b.req, fault)
    IN  IF b.err # ErrNone
        THEN Outcome(StatusBadRequest, ErrorBody(b.err),
                     <<LogError("Invalid request", b.err)>>, 0, ErrNone, table, s)
        ELSE IF p.err # ErrNone
        THEN Outcome(StatusBadRequest, ErrorBody("Invalid user ID"), <<>>, 0, ErrNone, table, s)
        ELSE IF r.err # ErrNone
        THEN Outcome(StatusNotFound, ErrorBody("User not found"),
                     <<LogErrorId("Failed to update user", r.err, p.value)>>, 1, r.err,
                     r.table, s)
        ELSE Outcome(StatusOK, UserBody(r.user),
                     <<LogInfoId("User updated", r.user.id)>>, 1, ErrNone, r.table, s)

\* PUT /users/:id calling the Repository with a request it never bound
HandlerUpdateUnboundRequest(table, s, t, path, body, fault) ==
    LET p == Param[path]
        b == ShouldBindJSON(body)
        r == RepoUpdate(table, t, p.value, [name |-> "", email |-> ""], fault)
    IN  IF p.err # ErrNone
        THEN Outcome(StatusBadRequest, ErrorBody("Invalid user ID"), <<>>, 0, ErrNone, table, s)
        ELSE IF b.err # ErrNone
        THEN Outcome(StatusBadRequest, ErrorBody(b.err),
                     <<LogError("Invalid request", b.err)>>, 0, ErrNone, table, s)
        ELSE IF r.err # ErrNone
        THEN Outcome(StatusNotFound, ErrorBody("User not found"),
                     <<LogErrorId("Failed to update user", r.err, p.value)>>, 1, r.err,
                     r.table, s)
        ELSE Outcome(StatusOK, UserBody(r.user),
                     <<LogInfoId("User updated", r.user.id)>>, 1, ErrNone, r.table, s)

\* PUT /users/:id logging "User updated" without the id field
HandlerUpdateLogsNoId(table, s, t, path, body, fault) ==
    LET p == Param[path]
        b == ShouldBindJSON(body)
        r == RepoUpdate(table, t, p.value, b.req, fault)
    IN  IF p.err # ErrNone
        THEN Outcome(StatusBadRequest, ErrorBody("Invalid user ID"), <<>>, 0, ErrNone, table, s)
        ELSE IF b.err # ErrNone
        THEN Outcome(StatusBadRequest, ErrorBody(b.err),
                     <<LogError("Invalid request", b.err)>>, 0, ErrNone, table, s)
        ELSE IF r.err # ErrNone
        THEN Outcome(StatusNotFound, ErrorBody("User not found"),
                     <<LogErrorId("Failed to update user", r.err, p.value)>>, 1, r.err,
                     r.table, s)
        ELSE Outcome(StatusOK, UserBody(r.user),
                     <<[LogInfoId("User updated", 0) EXCEPT !.hasId = FALSE]>>, 1, ErrNone,
                     r.table, s)

\* PUT /users/:id
HandlerUpdate(table, s, t, path, body, fault) ==
    LET p == Param[path]
        b == ShouldBindJSON(body)
        r == RepoUpdate(table, t, p.value, b.req, fault)
    IN  IF p.err # ErrNone
        THEN Outcome(StatusBadRequest, ErrorBody("Invalid user ID"), <<>>, 0, ErrNone, table, s)
        ELSE IF b.err # ErrNone
        THEN Outcome(StatusBadRequest, ErrorBody(b.err),
                     <<LogError("Invalid request", b.err)>>, 0, ErrNone, table, s)
        ELSE IF r.err # ErrNone
        THEN Outcome(StatusNotFound, ErrorBody("User not found"),
                     <<LogErrorId("Failed to update user", r.err, p.value)>>, 1, r.err,
                     r.table, s)
        ELSE Outcome(StatusOK, UserBody(r.user),
                     <<LogInfoId("User updated", r.user.id)>>, 1, ErrNone, r.table, s)

\* DELETE /users/:id that does not look at the error of the Repository
HandlerDeleteIgnoresError(table, s, path, fault) ==
    LET p == Param[path]
        r == RepoDelete(table, p.value, fault)
    IN  IF p.err # ErrNone
        THEN Outcome(StatusBadRequest, ErrorBody("Invalid user ID"), <<>>, 0, ErrNone, table, s)
        ELSE Outcome(StatusNoContent, EmptyBody,
                     <<LogInfoId("User deleted", p.value)>>, 1, r.err, r.table, s)

\* DELETE /users/:id with the test of the error inverted
HandlerDeleteInvertedCheck(table, s, path, fault) ==
    LET p == Param[path]
        r == RepoDelete(table, p.value, fault)
    IN  IF p.err # ErrNone
        THEN Outcome(StatusBadRequest, ErrorBody("Invalid user ID"), <<>>, 0, ErrNone, table, s)
        ELSE IF r.err = ErrNone
        THEN Outcome(StatusNotFound, ErrorBody("User not found"),
                     <<LogErrorId("Failed to delete user", r.err, p.value)>>, 1, r.err,
                     r.table, s)
        ELSE Outcome(StatusNoContent, EmptyBody,
                     <<LogInfoId("User deleted", p.value)>>, 1, ErrNone, r.table, s)

\* DELETE /users/:id that calls the Repository once more when the call failed
HandlerDeleteRetries(table, s, path, fault) ==
    LET p == Param[path]
        r1 == RepoDelete(table, p.value, fault)
        r == IF r1.err # ErrNone THEN RepoDelete(r1.table, p.value, fault) ELSE r1
        n == IF r1.err # ErrNone THEN 2 ELSE 1
    IN  IF p.err # ErrNone
        THEN Outcome(StatusBadRequest, ErrorBody("Invalid user ID"), <<>>, 0, ErrNone, table, s)
        ELSE IF r.err # ErrNone
        THEN Outcome(StatusNotFound, ErrorBody("User not found"),
                     <<LogErrorId("Failed to delete user", r.err, p.value)>>, n, r.err,
                     r.table, s)
        ELSE Outcome(StatusNoContent, EmptyBody,
                     <<LogInfoId("User deleted", p.value)>>, n, ErrNone, r.table, s)

\* DELETE /users/:id
HandlerDelete(table, s, path, fault) ==
    LET p == Param[path]
        r == RepoDelete(table, p.value, fault)
    IN  IF p.err # ErrNone
        THEN Outcome(StatusBadRequest, ErrorBody("Invalid user ID"), <<>>, 0, ErrNone, table, s)
        ELSE IF r.err # ErrNone
        THEN Outcome(StatusNotFound, ErrorBody("User not found"),
                     <<LogErrorId("Failed to delete user", r.err, p.value)>>, 1, r.err,
                     r.table, s)
        ELSE Outcome(StatusNoContent, EmptyBody,
                     <<LogInfoId("User deleted", p.value)>>, 1, ErrNone, r.table, s)

(* ------------------------------ requests ------------------------------ *)

\* the requests the HTTP runtime serves at the same time, one goroutine
\* each, numbered in the order they arrive
Clients == {1, 2}

\* a handler between its steps: no request, before its Repository call
\* ("handling"), after it ("returned"), response written ("done"); ctx is
\* c.Request.Context(): NoFault while it is live, else its error
NoOutcome == Outcome(0, EmptyBody, <<>>, 0, ErrNone, {}, 0)
Idle ==
    [pc |-> "idle", op |-> "none", path |-> NoPath, body |-> NoBody,
     ctx |-> NoFault, fault |-> NoFault, out |-> NoOutcome]

\* what a 201 of POST /users tells the client that sent it: the id it was
\* given and the name and email it sent; kept for the GET that comes next
NoCreate == [id |-> 0, name |-> "", email |-> ""]
CreateOf(l, op) ==
    IF op = "get" /\ l.op = "create" /\ l.status = StatusCreated
    THEN [id |-> l.resp.user.id, name |-> l.body.name, email |-> l.body.email]
    ELSE NoCreate

\* the request served last and everything its handler did: `before` is the
\* table the request found, `follows` the create a GET came right after
Served(op, path, body, fault, o, before, prev) ==
    [op |-> op, path |-> path, body |-> body, fault |-> fault,
     status |-> o.status, resp |-> o.body, logs |-> o.logs, calls |-> o.calls,
     err |-> o.err, before |-> before, follows |-> CreateOf(prev, op)]

NoRequest ==
    [op |-> "none", path |-> NoPath, body |-> NoBody, fault |-> NoFault,
     status |-> 0, resp |-> EmptyBody, logs |-> <<>>, calls |-> 0,
     err |-> ErrNone, before |-> {}, follows |-> NoCreate]

Init ==
    /\ users = {}
    /\ seq = 0
    /\ now = 0
    /\ last = NoRequest
    /\ created = {}
    /\ deleted = {}
    /\ flight = [c \in Clients |-> Idle]
    /\ hist = [table |-> {}, seq |-> 0, calls |-> <<>>]

\* the handler ran to its end: the store and the record of the request
Serve(op, path, body, fault, o) ==
    /\ o.seq <= MaxSeq
    /\ users' = o.table
    /\ seq' = o.seq
    /\ last' = Served(op, path, body, fault, o, users, last)
    /\ created' = IF op = "create" /\ o.status = StatusCreated
                  THEN created \cup {[id |-> o.body.user.id,
                                        created_at |-> o.body.user.created_at]}
                  ELSE IF op = "delete" /\ o.status = StatusNoContent
                  THEN {c \in created : c.id # Param[path].value}
                  ELSE created
    /\ deleted' = IF op = "delete" /\ o.status = StatusNoContent
                  THEN deleted \cup {Param[path].value} ELSE deleted
    /\ UNCHANGED <<now, flight, hist>>

Health ==
    /\ Serve("health", NoPath, NoBody, NoFault, HandlerHealth(users, seq))

Create ==
    /\ \E x \in CreateInputs :
        Serve("create", NoPath, x[1], x[2], HandlerCreate(users, seq, now, x[1], x[2]))

List ==
    /\ \E fault \in Faults :
        Serve("list", NoPath, NoBody, fault, HandlerList(users, seq, fault))

GetByID ==
    /\ \E x \in PathInputs :
        Serve("get", x[1], NoBody, x[2], HandlerGetByID(users, seq, x[1], x[2]))

Update ==
    /\ \E x \in UpdateInputs :
        Serve("update", x[1], x[2], x[3],
              HandlerUpdate(users, seq, now, x[1], x[2], x[3]))

Delete ==
    /\ \E x \in PathInputs :
        Serve("delete", x[1], NoBody, x[2], HandlerDelete(users, seq, x[1], x[2]))

\* CURRENT_TIMESTAMP moves on between requests
Tick ==
    /\ now < MaxTime
    /\ now' = now + 1
    /\ UNCHANGED <<users, seq, last, created, deleted, flight, hist>>

Next == Health \/ Create \/ List \/ GetByID \/ Update \/ Delete \/ Tick

Spec == Init /\ [][Next]_vars

TypeOK ==
    /\ seq \in 0..MaxSeq
    /\ now \in 0..MaxTime
    /\ Ids(users) \subseteq 1..seq

(* ------------------------ the request served last --------------------- *)

\* the path a client writes for an id: its decimal digits
RECURSIVE FormatInt(_)
FormatInt(n) ==
    IF n < 10 THEN <<DigitChars[n + 1]>>
    ELSE FormatInt(n \div 10) \o <<DigitChars[(n % 10) + 1]>>

\* the ids of the entries of a list body
ListIds(body) == {body.list[i].id : i \in 1..Len(body.list)}
\* the ids the 201s of POST /users returned, but for those deleted since
CreatedIds == {c.id : c \in created}

\* the id the path of the last request names, when it names one
LastId == Param[last.path].value
\* the last request carried a path id, and its handler called the Repository
ById == last.op \in {"get", "update", "delete"} /\ last.calls = 1

(* C1: a GET /users/{id} that comes right after a 201 of POST /users, names
   the id of that 201 and meets no storage fault, answers 200 with a user
   that has that id and the name and email the POST sent. *)
C1_RoundTrip ==
    (last.op = "get" /\ last.follows # NoCreate /\ last.calls = 1
        /\ LastId = last.follows.id /\ last.fault = NoFault)
    => /\ last.status = StatusOK
       /\ last.resp.kind = "user"
       /\ last.resp.user.id = last.follows.id
       /\ last.resp.user.name = last.follows.name
       /\ last.resp.user.email = last.follows.email

C1_Witness ==
    /\ last.op = "get" /\ last.follows # NoCreate /\ LastId = last.follows.id
    /\ last.status = StatusOK /\ Cardinality(last.before) = 2

\* the rows of a table that hold an email, but for the row with an id
Holders(table, email, id) == {r \in table : r.email = email /\ r.id # id}

(* C2: a POST /users whose email a persisted user holds is answered 500 on
   a persistence error and inserts no row; one with a name and an email
   that fit their columns, an email nobody holds and no storage fault is
   answered 201 with the user as the one new row. *)
C2_UniqueOnCreate ==
    (last.op = "create" /\ last.body.ok)
    => /\ Holders(last.before, last.body.email, 0) # {}
            => /\ last.status = StatusInternalServerError
               /\ IsPersistenceError(last.err)
               /\ users = last.before
       /\ (Holders(last.before, last.body.email, 0) = {} /\ last.fault = NoFault
             /\ VarcharOk(last.body.name) /\ VarcharOk(last.body.email))
            => /\ last.status = StatusCreated
               /\ users = last.before \cup {last.resp.user}
               /\ last.resp.user \notin last.before

C2_Witness ==
    /\ last.op = "create" /\ last.body.ok /\ last.fault = NoFault
    /\ Holders(last.before, last.body.email, 0) # {}
    /\ last.status = StatusInternalServerError
    /\ last.err = ErrDuplicateEmail

(* C3: in every state no two persisted users share an id, no two share an
   email, and every persisted user has updated_at >= created_at; a PUT that
   would give a user the email of another persisted user leaves the table
   as it was. *)
C3_TableInvariant ==
    /\ \A r1 \in users, r2 \in users : r1 # r2 => (r1.id # r2.id /\ r1.email # r2.email)
    /\ \A r \in users : r.updated_at >= r.created_at
    /\ (last.op = "update" /\ last.calls = 1 /\ LastId \in Ids(last.before)
          /\ Holders(last.before, last.body.email, LastId) # {})
       => (users = last.before /\ last.status # StatusOK)

C3_Witness ==
    /\ last.op = "update" /\ last.calls = 1 /\ LastId \in Ids(last.before)
    /\ Holders(last.before, last.body.email, LastId) # {}
    /\ last.err = ErrDuplicateEmail
    /\ \E r \in users : r.updated_at > r.created_at

(* C4: every request whose Repository call fails on a persistence error
   (any failure but "no row matches the id") is answered 500, whatever the
   operation; 404 is answered only when no row matches the id. *)
C4_PersistenceErrorIs500 ==
    /\ (last.calls = 1 /\ IsPersistenceError(last.err))
          => last.status = StatusInternalServerError
    /\ last.status = StatusNotFound
          => (ById /\ LastId \notin Ids(last.before))

(* C5: a GET, PUT or DELETE that reaches the Repository with an id no
   persisted row holds is answered 404 {"error":"User not found"}, fails on
   NotFoundError unless the storage round trip itself failed, and leaves
   the table as it was, however often and in whatever order. *)
C5_MissingIdIsNotFound ==
    (ById /\ LastId \notin Ids(last.before))
    => /\ last.status = StatusNotFound
       /\ last.resp = ErrorBody("User not found")
       /\ last.err # ErrNone
       /\ last.fault = NoFault => IsNotFoundError(last.err)
       /\ users = last.before

C5_Witness ==
    /\ last.op = "delete" /\ last.calls = 1 /\ last.fault = NoFault
    /\ LastId \in deleted /\ LastId \notin Ids(last.before)
    /\ last.status = StatusNotFound
    /\ users # {}

(* C6: a DELETE answered 204 removed exactly the row of its id: a GET of
   that id is answered 404, the list holds no entry with that id, and every
   other user is returned by GET as it was; and so it stays, every later
   GET of a deleted id is answered 404 and no later list holds it. *)
C6_DeleteRemovesVisibility ==
    /\ (last.op = "delete" /\ last.status = StatusNoContent)
       => /\ LastId \in Ids(last.before)
          /\ users = last.before \ {RowOf(last.before, LastId)}
          /\ HandlerGetByID(users, seq, last.path, NoFault).status = StatusNotFound
          /\ LastId \notin ListIds(HandlerList(users, seq, NoFault).body)
          /\ \A r \in last.before :
                r.id # LastId =>
                    LET o == HandlerGetByID(users, seq, FormatInt(r.id), NoFault)
                    IN  o.status = StatusOK /\ o.body = UserBody(r)
    /\ (last.op = "get" /\ last.calls = 1 /\ LastId \in deleted)
       => (last.status = StatusNotFound /\ last.resp = ErrorBody("User not found"))
    /\ (last.op = "list" /\ last.status = StatusOK)
       => ListIds(last.resp) \cap deleted = {}

C6_Witness ==
    /\ last.op = "get" /\ last.calls = 1 /\ last.fault = NoFault
    /\ LastId \in deleted
    /\ last.status = StatusNotFound
    /\ users # {}

(* C7: a GET /users that meets no storage fault is answered 200 with a
   sequence, never null; while no DELETE was answered 204 the sequence has
   exactly one entry for each 201 of POST /users, matched by id, so it is
   empty when there was none. *)
C7_ListCompleteness ==
    (last.op = "list" /\ last.fault = NoFault)
    => /\ last.status = StatusOK
       /\ last.resp.kind = "list"
       /\ deleted = {}
            => /\ Len(last.resp.list) = Cardinality(created)
               /\ ListIds(last.resp) = CreatedIds
               /\ Cardinality(CreatedIds) = Cardinality(created)

C7_Witness ==
    /\ last.op = "list" /\ last.fault = NoFault /\ deleted = {}
    /\ Cardinality(created) = 2
    /\ Len(last.resp.list) = 2

(* C8: the user a PUT answered 200 returns has an updated_at that is not
   before the updated_at the row had, and the created_at the 201 that made
   the row returned, however often the row was updated before. *)
C8_UpdateMonotonic ==
    (last.op = "update" /\ last.status = StatusOK)
    => /\ LastId \in Ids(last.before)
       /\ last.resp.user.updated_at >= RowOf(last.before, LastId).updated_at
       /\ last.resp.user.created_at = RowOf(last.before, LastId).created_at
       /\ [id |-> LastId, created_at |-> last.resp.user.created_at] \in created

C8_Witness ==
    /\ last.op = "update" /\ last.status = StatusOK
    /\ RowOf(last.before, LastId).updated_at > RowOf(last.before, LastId).created_at
    /\ last.resp.user.updated_at > last.resp.user.created_at

(* C9: a request whose path id is no integer (get, update, delete) or whose
   body does not bind (create, update) is answered 400 without a call of the
   Repository and leaves the table as it was; on update the id is looked at
   first, so with both wrong the answer is "Invalid user ID". *)
C9_MalformedIs400 ==
    /\ (last.op \in {"get", "update", "delete"} /\ Param[last.path].err # ErrNone)
       => /\ last.status = StatusBadRequest
          /\ last.resp = ErrorBody("Invalid user ID")
          /\ last.calls = 0
          /\ users = last.before
    /\ (last.op \in {"create", "update"} /\ ~last.body.ok)
       => /\ last.status = StatusBadRequest
          /\ last.resp.kind = "error"
          /\ last.calls = 0
          /\ users = last.before

C9_Witness ==
    /\ last.op = "update" /\ last.path \in BadPaths /\ ~last.body.ok
    /\ last.status = StatusBadRequest
    /\ last.resp = ErrorBody("Invalid user ID")
    /\ users # {}

\* the handler of the last request run again on the table that request
\* found, with another outcome of the storage round trip
Rerun(fault) ==
    CASE last.op = "create" -> HandlerCreate(last.before, seq, now, last.body, fault)
      [] last.op = "list" -> HandlerList(last.before, seq, fault)
      [] last.op = "get" -> HandlerGetByID(last.before, seq, last.path, fault)
      [] last.op = "update" -> HandlerUpdate(last.before, seq, now, last.path, last.body, fault)
      [] last.op = "delete" -> HandlerDelete(last.before, seq, last.path, fault)
      [] OTHER -> HandlerHealth(last.before, seq)

(* C10: when the Repository call of a request failed, the same request on
   the same table failing on any other storage error gets the same status
   and the same body: the response does not depend on the error. *)
C10_NoStorageDetail ==
    (last.calls = 1 /\ last.err # ErrNone)
    => \A f \in Faults :
          Rerun(f).err # ErrNone
             => (Rerun(f).status = last.status /\ Rerun(f).body = last.resp)

C10_Witness ==
    /\ last.op = "create" /\ last.err = ErrDuplicateEmail
    /\ \E f \in Faults : Rerun(f).err \notin {ErrNone, last.err}
    /\ last.status = StatusInternalServerError

\* the last request was answered with a success status
Succeeded == last.status \in {StatusOK, StatusCreated, StatusNoContent}
\* the last request was one to a route that writes
Mutating == last.op \in {"create", "update", "delete"}

(* C13: a PUT answered 200 has put the name and the email of its body on the
   row with its id, whatever they were, kept the id and the created_at of
   that row, changed no other row and neither added nor removed one; the
   user it returns is the row as it is now. *)
C13_UpdateOverwritesBoth ==
    (last.op = "update" /\ last.status = StatusOK)
    => /\ LastId \in Ids(last.before)
       /\ LastId \in Ids(users)
       /\ RowOf(users, LastId).name = last.body.name
       /\ RowOf(users, LastId).email = last.body.email
       /\ RowOf(users, LastId).created_at = RowOf(last.before, LastId).created_at
       /\ users \ {RowOf(users, LastId)} = last.before \ {RowOf(last.before, LastId)}
       /\ Cardinality(users) = Cardinality(last.before)
       /\ last.resp = UserBody(RowOf(users, LastId))

\* both fields were different before, on a row updated once already
C13_Witness ==
    /\ last.op = "update" /\ last.status = StatusOK
    /\ RowOf(last.before, LastId).name # last.body.name
    /\ RowOf(last.before, LastId).email # last.body.email
    /\ RowOf(users, LastId).name = last.body.name
    /\ RowOf(users, LastId).email = last.body.email

(* C14, as claimed: every create, update and delete request emits exactly
   one log entry and the entry carries the id of the affected user; list,
   get and health requests answered 200 emit none. *)
C14_OneEntryPerMutatingRequest ==
    /\ Mutating => (Len(last.logs) = 1 /\ last.logs[1].hasId)
    /\ (last.op \in {"list", "get", "health"} /\ last.status = StatusOK)
       => last.logs = <<>>

(* C14, amended: a create, update or delete that succeeds emits exactly one
   log entry, an info entry carrying the id of the user created, updated or
   deleted; one that fails emits at most one entry, an error entry: none
   when the path id is no integer, one without an id when the body does not
   bind or the create fails, one with the id of the path when the
   Repository call of an update or delete fails; list, get and health
   requests answered 200 emit none. *)
C14_OneEntryPerMutation ==
    /\ (Mutating /\ Succeeded)
       => /\ Len(last.logs) = 1
          /\ last.logs[1].level = "info"
          /\ last.logs[1].hasId
          /\ last.logs[1].id = IF last.op = "create" THEN last.resp.user.id ELSE LastId
          /\ last.op = "create" => last.logs[1].id \in Ids(users) \ Ids(last.before)
          /\ last.op = "update" => last.logs[1].id \in Ids(users)
          /\ last.op = "delete" => last.logs[1].id \in Ids(last.before) \ Ids(users)
    /\ (Mutating /\ ~Succeeded)
       => /\ Len(last.logs) <= 1
          /\ \A i \in 1..Len(last.logs) : last.logs[i].level = "error"
          /\ last.logs = <<>>
                <=> (last.op # "create" /\ Param[last.path].err # ErrNone)
          /\ (last.logs # <<>> /\ last.logs[1].hasId)
                <=> (last.op # "create" /\ last.calls = 1)
          /\ (last.logs # <<>> /\ last.logs[1].hasId) => last.logs[1].id = LastId
    /\ (last.op \in {"list", "get", "health"} /\ last.status = StatusOK)
       => last.logs = <<>>

\* an update of the second of two users, logged with that id
C14_Witness ==
    /\ last.op = "update" /\ last.status = StatusOK
    /\ Len(last.logs) = 1 /\ last.logs[1].hasId /\ last.logs[1].id = 2
    /\ Cardinality(users) = 2

(* C15: the id a 201 of POST /users returns is the id of no persisted user
   and of no user deleted before, so of no earlier 201; no persisted user
   has the id of a deleted one, and a GET answered 200 returns the user of
   the id asked for; a request adds no id but the one its 201 returns,
   removes none but the one its 204 names, and leaves every other row its
   id and its created_at. *)
C15_IdsNeverReused ==
    /\ (last.op = "create" /\ last.status = StatusCreated)
       => /\ last.resp.user.id \notin Ids(last.before)
          /\ last.resp.user.id \notin deleted
          /\ \A r \in last.before : r.id < last.resp.user.id
          /\ \A id \in deleted : id < last.resp.user.id
    /\ Ids(users) \cap deleted = {}
    /\ (last.op = "get" /\ last.status = StatusOK)
       => (last.resp.user.id = LastId /\ LastId \notin deleted)
    /\ Ids(users) \ Ids(last.before)
          \subseteq (IF last.op = "create" /\ last.status = StatusCreated
                     THEN {last.resp.user.id} ELSE {})
    /\ Ids(last.before) \ Ids(users)
          \subseteq (IF last.op = "delete" /\ last.status = StatusNoContent
                     THEN {LastId} ELSE {})
    /\ \A r \in users :
          r.id \in Ids(last.before) => r.created_at = RowOf(last.before, r.id).created_at

\* a create after the delete of the only user: a new id
C15_Witness ==
    /\ last.op = "create" /\ last.status = StatusCreated
    /\ deleted # {} /\ last.before = {}
    /\ last.resp.user.id \notin deleted

(* C16: a request answered 400, 404 or 500, and every GET request, leaves the
   persisted users as they were, all fields; the table is another one only
   after a create answered 201, an update answered 200 or a delete
   answered 204. *)
C16_OnlySuccessChangesStore ==
    /\ last.status \in {StatusBadRequest, StatusNotFound, StatusInternalServerError}
       => users = last.before
    /\ last.op \in {"health", "list", "get"} => users = last.before
    /\ users # last.before
       => \/ last.op = "create" /\ last.status = StatusCreated
          \/ last.op = "update" /\ last.status = StatusOK
          \/ last.op = "delete" /\ last.status = StatusNoContent

\* an update of an existing user refused for the email of another
C16_Witness ==
    /\ last.op = "update" /\ last.status = StatusNotFound
    /\ last.err = ErrDuplicateEmail
    /\ users = last.before /\ Cardinality(users) = 2

\* the rows of one table that are not rows of the other
RowsChanged(a, b) == (a \ b) \cup (b \ a)

(* C17: a request makes at most one Repository call; when the call fails the
   request is answered with an error status and the table is as it was;
   a request changes at most one row of the table: it adds one, removes
   one, or replaces one by a row with the same id. *)
C17_AtMostOneCall ==
    /\ last.calls \in {0, 1}
    /\ last.err # ErrNone => (last.calls = 1 /\ ~Succeeded /\ users = last.before)
    /\ Cardinality(Ids(RowsChanged(users, last.before))) <= 1
    /\ Cardinality(RowsChanged(users, last.before)) <= 2

\* a delete of an existing user that failed for the connection
C17_Witness ==
    /\ last.op = "delete" /\ last.calls = 1 /\ last.err = ConnRefused
    /\ LastId \in Ids(users) /\ users = last.before
    /\ last.status = StatusNotFound

(* ------------------------- concurrent requests ------------------------ *)

\* the handler a route dispatches to
Run(op, table, s, t, path, body, fault) ==
    CASE op = "create" -> HandlerCreate(table, s, t, body, fault)
      [] op = "list" -> HandlerList(table, s, fault)
      [] op = "get" -> HandlerGetByID(table, s, path, fault)
      [] op = "update" -> HandlerUpdate(table, s, t, path, body, fault)
      [] op = "delete" -> HandlerDelete(table, s, path, fault)
      [] OTHER -> HandlerHealth(table, s)

\* the requests two clients send at the same time
ConcurrentBodies ==
    {BadJSON} \cup {[ok |-> TRUE, name |-> "John Updated", email |-> e] : e \in Emails}
ConcurrentRequests ==
    ({"create"} \X {NoPath} \X ConcurrentBodies)
    \cup ({"update"} \X (PathIds \ BadPaths) \X (ConcurrentBodies \ {BadJSON}))
    \cup ({"get", "delete"} \X (PathIds \ BadPaths) \X {NoBody})
    \cup {<<"list", NoPath, NoBody>>}

\* the tables the clients may find: none or one user created before
BaseTables == {{}, {NewRow(SerialNext(0), "John Doe", "john@example.com", 0)}}

ConcurrentInit ==
    /\ users \in BaseTables
    /\ seq = Cardinality(users)
    /\ now = 0
    /\ last = NoRequest
    /\ created = {[id |-> r.id, created_at |-> r.created_at] : r \in users}
    /\ deleted = {}
    /\ flight = [c \in Clients |-> Idle]
    /\ hist = [table |-> users, seq |-> seq, calls |-> <<>>]

\* the runtime hands a request to its handler, on a goroutine of its own
Arrive ==
    /\ \E c \in Clients, x \in ConcurrentRequests :
        /\ flight[c].pc = "idle"
        /\ \A d \in Clients : d < c => flight[d].pc # "idle"
        /\ flight' = [flight EXCEPT ![c] = [Idle EXCEPT !.pc = "handling", !.op = x[1],
                                                          !.path = x[2], !.body = x[3]]]
    /\ UNCHANGED <<users, seq, now, last, created, deleted, hist>>

\* the client goes away, or the deadline of the request elapses, while the
\* handler has not made its Repository call yet or the call is in flight
Cancel ==
    /\ \E c \in Clients, e \in ContextErrors :
        /\ flight[c].pc = "handling"
        /\ flight[c].ctx = NoFault
        /\ flight' = [flight EXCEPT ![c].ctx = e]
    /\ UNCHANGED <<users, seq, now, last, created, deleted, hist>>

\* the handler reaches its h.repo call, which it makes under
\* c.Request.Context(): a context that is done fails the call with its
\* error; else the store executes the one statement of the call against the
\* table as it is now, whatever the other handlers are doing; a request the
\* handler rejects first makes no call
Call ==
    /\ \E c \in Clients, fault \in RouteFaults \cup ContextErrors :
        LET f == flight[c]
            o == Run(f.op, users, seq, now, f.path, f.body, fault)
        IN  /\ f.pc = "handling"
            /\ IF f.ctx # NoFault THEN fault = f.ctx ELSE fault \in RouteFaults
            /\ users' = o.table
            /\ seq' = o.seq
            /\ flight' = [flight EXCEPT ![c] =
                            [f EXCEPT !.pc = "returned", !.out = o,
                                      !.fault = IF o.calls = 0 THEN NoFault ELSE fault]]
            /\ hist' = IF o.calls = 0 THEN hist
                       ELSE [hist EXCEPT !.calls =
                                Append(@, [client |-> c, t |-> now, fault |-> fault])]
    /\ UNCHANGED <<now, last, created, deleted>>

\* the handler writes its log entry and its response
Reply ==
    /\ \E c \in Clients :
        /\ flight[c].pc = "returned"
        /\ flight' = [flight EXCEPT ![c].pc = "done"]
    /\ UNCHANGED <<users, seq, now, last, created, deleted, hist>>

ConcurrentNext == Arrive \/ Cancel \/ Call \/ Reply \/ Tick

ConcurrentSpec == ConcurrentInit /\ [][ConcurrentNext]_vars

\* the same calls made one after the other, each handler run to its end
\* before the next starts, in the order of hist: the table, the sequence and
\* the outcome of each client's request
RECURSIVE Replay(_, _, _, _)
Replay(calls, table, s, outs) ==
    IF calls = <<>> THEN [table |-> table, seq |-> s, outs |-> outs]
    ELSE LET k == Head(calls)
             f == flight[k.client]
             o == Run(f.op, table, s, k.t, f.path, f.body, k.fault)
         IN  Replay(Tail(calls), o.table, o.seq, [outs EXCEPT ![k.client] = o])

Sequential == Replay(hist.calls, hist.table, hist.seq, [c \in Clients |-> NoOutcome])

\* the handler of a client made its Repository call
Called(c) == flight[c].pc \in {"returned", "done"} /\ flight[c].out.calls = 1

(* C11: under every interleaving of concurrent create, update, delete, get
   and list requests the table and every response are those of the same
   calls made one after the other in the order the store executed them; of
   two concurrent creates with the same email at most one is answered 201,
   and exactly one when nobody held the email and neither met a storage
   fault; after a concurrent update and delete of an existing row, the
   delete meeting no storage fault, the row is absent. *)
C11_ConcurrentIsSequential ==
    /\ users = Sequential.table
    /\ seq = Sequential.seq
    /\ \A c \in Clients :
          Called(c) => (flight[c].out.status = Sequential.outs[c].status
                        /\ flight[c].out.body = Sequential.outs[c].body)
    /\ \A c \in Clients, d \in Clients :
          (c # d /\ Called(c) /\ Called(d)
             /\ flight[c].op = "create" /\ flight[d].op = "create"
             /\ flight[c].body.email = flight[d].body.email)
          => /\ ~(flight[c].out.status = StatusCreated
                    /\ flight[d].out.status = StatusCreated)
             /\ (Holders(hist.table, flight[c].body.email, 0) = {}
                   /\ flight[c].fault = NoFault /\ flight[d].fault = NoFault)
                => Cardinality({e \in {c, d} : flight[e].out.status = StatusCreated}) = 1
    /\ \A c \in Clients, d \in Clients :
          (Called(c) /\ Called(d)
             /\ flight[c].op = "update" /\ flight[d].op = "delete"
             /\ Param[flight[c].path].value = Param[flight[d].path].value
             /\ Param[flight[d].path].value \in Ids(hist.table)
             /\ flight[d].fault = NoFault)
          => Param[flight[d].path].value \notin Ids(users)

\* two creates with the same free email, the second sent before the first
\* was answered: one 201 and one 500
C11_Witness ==
    /\ \E c \in Clients, d \in Clients :
          /\ c # d /\ Called(c) /\ Called(d)
          /\ flight[c].pc = "returned" /\ flight[d].pc = "returned"
          /\ flight[c].op = "create" /\ flight[d].op = "create"
          /\ flight[c].body.email = flight[d].body.email
          /\ flight[c].out.status = StatusCreated
          /\ flight[d].out.status = StatusInternalServerError
          /\ flight[d].out.err = ErrDuplicateEmail
    /\ Len(hist.calls) = 2

(* C12: every Repository call is made under the context of its request: a
   call whose request was cancelled, or ran past its deadline, before the
   call returned fails with the error of the context, and the request is
   answered with an error status, never 200, 201 or 204. *)
C12_CancelledCallFails ==
    \A c \in Clients :
        (Called(c) /\ flight[c].ctx \in ContextErrors)
        => /\ flight[c].fault = flight[c].ctx
           /\ flight[c].out.err = flight[c].ctx
           /\ flight[c].out.status \in {StatusNotFound, StatusInternalServerError}

\* a create and an update cancelled in flight while the other client's
\* create went through
C12_Witness ==
    \E c \in Clients, d \in Clients :
        /\ Called(c) /\ flight[c].op \in {"create", "update"}
        /\ flight[c].ctx = Canceled /\ flight[c].out.err = Canceled
        /\ flight[c].out.status \in {StatusNotFound, StatusInternalServerError}
        /\ Called(d) /\ flight[d].out.status = StatusCreated

====
